---- MODULE Spec2Model ----
(***************************************************************************)
(* Mobile Attendance System backend: the v1 attendance API (validation,    *)
(* data access layer, record store) and the v2 placeholder routes.         *)
(*                                                                         *)
(* Requests are handled by concurrent request slots.  A handler is split   *)
(* at the statements it sends to the database (INSERT, COMMIT, SELECT,     *)
(* DELETE), which is where requests served by different workers can        *)
(* interleave.  Python's Optional[T] is modelled as a set: None is {} and  *)
(* a value v is {v}.                                                       *)
(***************************************************************************)
EXTENDS Integers, Sequences, FiniteSets, TLC

(* ------------------------------ bounds --------------------------------- *)
\* number of requests that can be in flight together
NumReq == 2
\* number of values the id sequence hands out in a run
MaxId == 2

(* ------------------------- program constants --------------------------- *)
NameMaxLength == 100
StudentIdMaxLength == 50
SignalMin == -100
SignalMax == 0
LimitMax == 500
HTTP_200_OK == 200
HTTP_201_CREATED == 201
HTTP_404_NOT_FOUND == 404
HTTP_422_UNPROCESSABLE == 422
HTTP_500_INTERNAL_SERVER_ERROR == 500
HTTP_501_NOT_IMPLEMENTED == 501

None == {}
Some(v) == {v}
The(opt) == CHOOSE v \in opt : TRUE

RECURSIVE Rep(_, _)
\* the string made of n copies of c
Rep(c, n) == IF n = 0 THEN "" ELSE c \o Rep(c, n - 1)

Min(a, b) == IF a <= b THEN a ELSE b

(* --------------------------- request inputs ---------------------------- *)
\* A datetime is a wall-clock value and a UTC offset marker: "" for a naive
\* datetime ("2025-11-08T10:30:00"), "Z" for an aware one ("...T10:30:00Z").
Naive(w) == [wall |-> w, tz |-> ""]
Aware(w) == [wall |-> w, tz |-> "Z"]

BasePayload ==
    [student_name |-> "John Doe", student_id |-> "STU1", timestamp |-> Naive(1),
     bluetooth_signal_strength |-> Some(0 - 45), status |-> "present"]

\* payloads that satisfy every field constraint, the limits included
GoodPayloads ==
    { [BasePayload EXCEPT !.bluetooth_signal_strength = Some(SignalMax)],
      [BasePayload EXCEPT !.student_name = "J",
                          !.student_id = "STU2",
                          !.bluetooth_signal_strength = None,
                          !.status = "late"],
      [BasePayload EXCEPT !.student_name = Rep("n", NameMaxLength),
                          !.student_id = Rep("s", StudentIdMaxLength),
                          !.timestamp = Aware(2),
                          !.bluetooth_signal_strength = Some(SignalMin),
                          !.status = "absent"] }

\* payloads that break exactly one field constraint
BadPayloads ==
    { [BasePayload EXCEPT !.student_name = ""],
      [BasePayload EXCEPT !.student_name = Rep("n", NameMaxLength + 1)],
      [BasePayload EXCEPT !.student_id = ""],
      [BasePayload EXCEPT !.student_id = Rep("s", StudentIdMaxLength + 1)],
      [BasePayload EXCEPT !.bluetooth_signal_strength = Some(SignalMin - 1)],
      [BasePayload EXCEPT !.bluetooth_signal_strength = Some(SignalMax + 1)],
      [BasePayload EXCEPT !.status = "Present"],
      [BasePayload EXCEPT !.status = "present,late"],
      [BasePayload EXCEPT !.status = ""] }

Payloads == GoodPayloads \cup BadPayloads

\* the payloads of the listing runs: two students, at two instants
ListPayloads == { p \in GoodPayloads : p.student_id # "STU2" }

(* ----------------------------- validation ------------------------------ *)
\* Field(..., min_length=lo, max_length=hi)
LengthOk(s, lo, hi) == Len(s) >= lo /\ Len(s) <= hi

\* SignalOk without the upper bound le=0
SignalOkNoUpperBound(opt) == opt = None \/ The(opt) >= SignalMin

\* Field(None, ge=-100, le=0) on an Optional[int]
SignalOk(opt) == opt = None \/ (The(opt) >= SignalMin /\ The(opt) <= SignalMax)

\* Field(..., pattern=r"^(present|absent|late)$")
StatusOk(s) == s \in {"present", "absent", "late"}

\* AttendanceV1Create accepts the payload
AttendanceV1Create(p) ==
    /\ LengthOk(p.student_name, 1, NameMaxLength)
    /\ LengthOk(p.student_id, 1, StudentIdMaxLength)
    /\ SignalOk(p.bluetooth_signal_strength)
    /\ StatusOk(p.status)

(* ------------------------------- state --------------------------------- *)
VARIABLES
    store,        \* committed rows of table attendance_records
    seq,          \* last value handed out by the id sequence of the table
    clock,        \* the store's now(), a logical clock
    req,          \* per request slot: the handler invocation in flight
    resp,         \* the response sent by the latest step (NoResp when it sent none),
                  \* with what the data access layer returned
    deleted_ids,  \* history: ids whose row a delete has removed
    version       \* history: number of committed changes of the store

vars == <<store, seq, clock, req, resp, deleted_ids, version>>

Req == 1 .. NumReq

Ids(rows) == { The(row.id) : row \in rows }

Max(S) == CHOOSE m \in S : \A x \in S : x <= m

(* ----------------------------- data model ------------------------------ *)
\* Column(DateTime): a column without time zone; the stored value is naive
DateTimeColumn(ts) == [wall |-> ts.wall, tz |-> ""]

\* AttendanceRecord(student_name=..., ...): the mapped object before INSERT
AttendanceRecord(p) ==
    [id |-> None,
     student_name |-> p.student_name,
     student_id |-> p.student_id,
     timestamp |-> p.timestamp,
     bluetooth_signal_strength |-> p.bluetooth_signal_strength,
     status |-> p.status,
     created_at |-> None,
     updated_at |-> None]

\* NextId computed by the caller from the rows it can see
NextIdFromCount == Cardinality(store) + 1

\* NextId as the largest stored id plus one, which hands a deleted id out again
NextIdFromMax == Max(Ids(store) \cup {0}) + 1

\* id = Column(Integer, primary_key=True, autoincrement=True): next value
\* of the table's sequence
NextId == seq + 1

\* the row the INSERT writes for a mapped object
InsertedRow(obj) ==
    [obj EXCEPT !.id = Some(NextId),
                !.timestamp = DateTimeColumn(obj.timestamp),
                !.created_at = Some(clock)]

(* ------------------------- request bookkeeping ------------------------- *)
IdleReq ==
    [op |-> "none", pc |-> "idle", input |-> None, record |-> None,
     records |-> <<>>, at |-> None, session |-> "none"]

NoResp ==
    [op |-> "none", input |-> None, status |-> None, dal |-> FALSE,
     record |-> None, records |-> <<>>, total |-> None, deleted |-> None,
     at |-> None, count_at |-> None, session |-> "none"]

Response(op, input, status) ==
    [NoResp EXCEPT !.op = op, !.input = Some(input), !.status = Some(status)]

Init ==
    /\ store = {}
    /\ seq = 0
    /\ clock = 0
    /\ req = [r \in Req |-> IdleReq]
    /\ resp = NoResp
    /\ deleted_ids = {}
    /\ version = 0

\* a request is taken by the first free slot
FirstFree(r) == req[r].pc = "idle" /\ \A q \in Req : q < r => req[q].pc # "idle"

(* ------------------------ POST /api/v1/attendance/ --------------------- *)
\* except branch of create_attendance_record: db.rollback(), raise; the
\* route handler answers 500
CreateFailed(r) ==
    /\ req' = [req EXCEPT ![r] = IdleReq]
    /\ resp' = [Response("create", The(req[r].input), HTTP_500_INTERNAL_SERVER_ERROR)
                   EXCEPT !.dal = TRUE, !.record = req[r].record, !.session = "none"]

\* request arrives: body validation, then AttendanceRecord(...), db.add and
\* the first half of db.commit(): the flush sends the INSERT
CreateAttendance(r, p, fail) ==
    /\ FirstFree(r)
    /\ IF ~AttendanceV1Create(p)
          THEN /\ resp' = Response("create", p, HTTP_422_UNPROCESSABLE)
               /\ UNCHANGED <<req, seq, clock>>
          ELSE /\ seq < MaxId
               /\ IF fail
                     THEN /\ resp' = [Response("create", p, HTTP_500_INTERNAL_SERVER_ERROR)
                                         EXCEPT !.dal = TRUE,
                                                !.record = Some(AttendanceRecord(p))]
                          /\ UNCHANGED <<req, seq, clock>>
                     ELSE /\ seq' = NextId
                          /\ clock' = clock + 1
                          /\ req' = [req EXCEPT ![r] =
                                         [IdleReq EXCEPT !.op = "create", !.pc = "commit",
                                                         !.input = Some(p),
                                                         !.record = Some(InsertedRow(AttendanceRecord(p))),
                                                         !.session = "flushed"]]
                          /\ resp' = NoResp
    /\ UNCHANGED <<store, deleted_ids, version>>

\* db.commit(), second half: COMMIT makes the row visible
CreateCommit(r, fail) ==
    /\ req[r].pc = "commit"
    /\ IF fail
          THEN /\ CreateFailed(r)
               /\ UNCHANGED <<store, version>>
          ELSE /\ store' = store \cup req[r].record
               /\ version' = version + 1
               /\ req' = [req EXCEPT ![r].pc = "refresh", ![r].session = "none"]
               /\ resp' = NoResp
    /\ UNCHANGED <<seq, clock, deleted_ids>>

\* db.refresh(db_attendance) reloads the row by primary key and raises when
\* it is gone; then the record is returned and the handler answers 201
CreateRefresh(r, fail) ==
    /\ req[r].pc = "refresh"
    /\ LET found == { row \in store : row.id = The(req[r].record).id } IN
       IF fail \/ found = {}
          THEN CreateFailed(r)
          ELSE /\ req' = [req EXCEPT ![r] = IdleReq]
               /\ resp' = [Response("create", The(req[r].input), HTTP_201_CREATED)
                              EXCEPT !.dal = TRUE, !.record = found]
    /\ UNCHANGED <<store, seq, clock, deleted_ids, version>>

(* ------------------------ GET /api/v1/attendance/ ---------------------- *)
\* skip: int = Query(0, ge=0); limit: int = Query(100, ge=1, le=500)
QueryOk(q) == q.skip >= 0 /\ q.limit >= 1 /\ q.limit <= LimitMax

Query(skip, limit, student_id) ==
    [skip |-> skip, limit |-> limit, student_id |-> student_id]

\* queries within the ranges of skip and limit
GoodQueries ==
    { Query(0, 1, None), Query(1, 1, None), Query(0, LimitMax, None),
      Query(0, LimitMax, Some("STU1")), Query(0, LimitMax, Some("STU9")),
      Query(0, LimitMax, Some("")) }

\* queries with skip or limit out of range
BadQueries ==
    { Query(-1, 1, None), Query(0, 0, None), Query(0, LimitMax + 1, None) }

Queries == GoodQueries \cup BadQueries

\* if student_id: query = query.filter(AttendanceRecord.student_id == student_id)
\* (None and the empty string are both falsy)
Filter(rows, student_id) ==
    IF student_id # None /\ The(student_id) # ""
       THEN { row \in rows : row.student_id = The(student_id) }
       ELSE rows

RECURSIVE Perms(_)
\* every arrangement of a set of rows in a sequence
Perms(S) ==
    IF S = {} THEN { <<>> }
    ELSE UNION { { <<x>> \o o : o \in Perms(S \ {x}) } : x \in S }

\* order_by(desc(AttendanceRecord.timestamp)): the store may return rows of
\* equal timestamp in any order
OrderByTimestampDesc(rows) ==
    { o \in Perms(rows) :
        \A i \in 1 .. Len(o) - 1 : o[i].timestamp.wall >= o[i + 1].timestamp.wall }

\* OffsetLimit without the offset
LimitOnly(o, skip, limit) == SubSeq(o, 1, Min(Len(o), limit))

\* .offset(skip).limit(limit)
OffsetLimit(o, skip, limit) == SubSeq(o, skip + 1, Min(Len(o), skip + limit))

\* the results get_attendance_records can return
get_attendance_records(skip, limit, student_id) ==
    { OffsetLimit(o, skip, limit) : o \in OrderByTimestampDesc(Filter(store, student_id)) }

\* get_total_count
get_total_count(student_id) == Cardinality(Filter(store, student_id))

\* request arrives: query validation, then crud.get_attendance_records
GetAttendanceList(r, q, fail) ==
    /\ FirstFree(r)
    /\ IF ~QueryOk(q)
          THEN /\ resp' = Response("list", q, HTTP_422_UNPROCESSABLE)
               /\ UNCHANGED req
          ELSE IF fail
          THEN /\ resp' = Response("list", q, HTTP_500_INTERNAL_SERVER_ERROR)
               /\ UNCHANGED req
          ELSE /\ \E page \in get_attendance_records(q.skip, q.limit, q.student_id) :
                      req' = [req EXCEPT ![r] =
                                 [IdleReq EXCEPT !.op = "list", !.pc = "count",
                                                 !.input = Some(q), !.records = page,
                                                 !.at = Some(version)]]
               /\ resp' = NoResp
    /\ UNCHANGED <<store, seq, clock, deleted_ids, version>>

\* crud.get_total_count, then the response is built
ListCount(r, fail) ==
    /\ req[r].pc = "count"
    /\ req' = [req EXCEPT ![r] = IdleReq]
    /\ resp' = IF fail
                  THEN Response("list", The(req[r].input), HTTP_500_INTERNAL_SERVER_ERROR)
                  ELSE [Response("list", The(req[r].input), HTTP_200_OK)
                           EXCEPT !.records = req[r].records,
                                  !.total = Some(get_total_count(The(req[r].input).student_id)),
                                  !.at = req[r].at,
                                  !.count_at = Some(version)]
    /\ UNCHANGED <<store, seq, clock, deleted_ids, version>>

(* ------------------- GET /api/v1/attendance/{record_id} ---------------- *)
RecordIds == 1 .. MaxId + 1

\* crud.get_attendance_by_id: .filter(AttendanceRecord.id == record_id).first()
get_attendance_by_id(record_id) == { row \in store : row.id = Some(record_id) }

GetAttendanceById(r, record_id, fail) ==
    /\ FirstFree(r)
    /\ resp' = IF fail
                  THEN Response("get", record_id, HTTP_500_INTERNAL_SERVER_ERROR)
                  ELSE IF get_attendance_by_id(record_id) = None
                  THEN Response("get", record_id, HTTP_404_NOT_FOUND)
                  ELSE [Response("get", record_id, HTTP_200_OK)
                           EXCEPT !.record = get_attendance_by_id(record_id)]
    /\ UNCHANGED <<store, seq, clock, req, deleted_ids, version>>

(* ----------------- DELETE /api/v1/attendance/{record_id} --------------- *)
\* request arrives: record = get_attendance_by_id(db, record_id); a missing
\* record makes delete_attendance_record return False, answered with 404
DeleteAttendance(r, record_id, fail) ==
    /\ FirstFree(r)
    /\ IF fail
          THEN /\ resp' = Response("delete", record_id, HTTP_500_INTERNAL_SERVER_ERROR)
               /\ UNCHANGED req
          ELSE IF get_attendance_by_id(record_id) = None
          THEN /\ resp' = [Response("delete", record_id, HTTP_404_NOT_FOUND)
                              EXCEPT !.deleted = Some(FALSE)]
               /\ UNCHANGED req
          ELSE /\ req' = [req EXCEPT ![r] =
                             [IdleReq EXCEPT !.op = "delete", !.pc = "delete",
                                             !.input = Some(record_id),
                                             !.record = get_attendance_by_id(record_id)]]
               /\ resp' = NoResp
    /\ UNCHANGED <<store, seq, clock, deleted_ids, version>>

\* DeleteRow with the WHERE clause on the wrong column
DeleteRowsOfStudent(rows, id) ==
    { row \in rows : \A gone \in rows : gone.id = id => row.student_id # gone.student_id }

\* rows left by DELETE ... WHERE id = :id
DeleteRow(rows, id) == { row \in rows : row.id # id }

\* db.delete(record); db.commit(); return True.  No except branch: a failure
\* propagates to the route handler without db.rollback()
DeleteCommit(r, fail) ==
    /\ req[r].pc = "delete"
    /\ req' = [req EXCEPT ![r] = IdleReq]
    /\ IF fail
          THEN /\ resp' = [Response("delete", The(req[r].input), HTTP_500_INTERNAL_SERVER_ERROR)
                              EXCEPT !.record = req[r].record, !.session = "failed"]
               /\ UNCHANGED <<store, deleted_ids, version>>
          ELSE /\ store' = DeleteRow(store, The(req[r].record).id)
               /\ deleted_ids' = deleted_ids \cup (Ids(store) \ Ids(store'))
               /\ version' = IF store' = store THEN version ELSE version + 1
               /\ resp' = [Response("delete", The(req[r].input), HTTP_200_OK)
                              EXCEPT !.record = req[r].record, !.deleted = Some(TRUE)]
    /\ UNCHANGED <<seq, clock>>

(* ------------------------------ /api/v2 -------------------------------- *)
\* IncludedRouters with the v2 router mounted as well
IncludedRoutersWithV2 == { "attendance_v1", "attendance_v2" }

\* app.include_router(...) calls of main.py
IncludedRouters == { "attendance_v1" }

RouterOf(prefix) == IF prefix = "/api/v1" THEN "attendance_v1" ELSE "attendance_v2"

\* create_attendance_v2 (body: AttendanceV2Create, no fields) and
\* get_attendance_list_v2: raise HTTPException(501)
attendance_v2(method, body) ==
    IF method = "POST" /\ body = None
       THEN HTTP_422_UNPROCESSABLE
       ELSE HTTP_501_NOT_IMPLEMENTED

\* status the application answers a request to <prefix>/attendance/ of the v2 kind
Route(prefix, method, body) ==
    IF RouterOf(prefix) \in IncludedRouters
       THEN attendance_v2(method, body)
       ELSE HTTP_404_NOT_FOUND

V2Bodies == { None, Some(BasePayload), Some([studentID |-> "STU1"]) }

\* POST or GET /api/v2/attendance/
V2Request(r, method, body) ==
    /\ FirstFree(r)
    /\ resp' = Response("v2", [method |-> method, body |-> body],
                        Route("/api/v2", method, body))
    /\ UNCHANGED <<store, seq, clock, req, deleted_ids, version>>

\* the steps of create requests, with the payloads sent and whether the
\* store can fail
CreateSteps(payloads, fails) ==
    \/ \E r \in Req, p \in payloads, fail \in fails : CreateAttendance(r, p, fail)
    \/ \E r \in Req, fail \in fails : CreateCommit(r, fail)
    \/ \E r \in Req, fail \in fails : CreateRefresh(r, fail)

DeleteSteps(ids, fails) ==
    \/ \E r \in Req, id \in ids, fail \in fails : DeleteAttendance(r, id, fail)
    \/ \E r \in Req, fail \in fails : DeleteCommit(r, fail)

ListSteps(queries, fails) ==
    \/ \E r \in Req, q \in queries, fail \in fails : GetAttendanceList(r, q, fail)
    \/ \E r \in Req, fail \in fails : ListCount(r, fail)

\* create, get by id and delete, over a store that can fail
NextCrud ==
    \/ CreateSteps(GoodPayloads, BOOLEAN)
    \/ \E r \in Req, id \in RecordIds, fail \in BOOLEAN : GetAttendanceById(r, id, fail)
    \/ DeleteSteps(RecordIds, BOOLEAN)

\* requests answered before any handler logic runs (invalid payloads, queries
\* out of range, the v2 paths), among creates that fill the store
NextBoundary ==
    \/ CreateSteps(Payloads, BOOLEAN)
    \/ \E r \in Req, q \in BadQueries : GetAttendanceList(r, q, FALSE)
    \/ \E r \in Req, m \in {"POST", "GET"}, b \in V2Bodies : V2Request(r, m, b)

\* list requests, one at a time, among creates and deletes
NextList ==
    \/ CreateSteps(ListPayloads, {FALSE})
    \/ DeleteSteps(1 .. MaxId, {FALSE})
    \/ /\ \A r \in Req : req[r].op # "list"
       /\ \E r \in Req, q \in GoodQueries : GetAttendanceList(r, q, FALSE)
    \/ \E r \in Req : ListCount(r, FALSE)

Next == NextCrud \/ NextBoundary \/ NextList \/ ListSteps(Queries, BOOLEAN)

Spec == Init /\ [][Next]_vars

\* the requests that read or write single records
SpecCrud == Init /\ [][NextCrud]_vars

\* the requests rejected by validation or by routing
SpecBoundary == Init /\ [][NextBoundary]_vars

\* the list requests, with the requests that change what they read
SpecList == Init /\ [][NextList]_vars

(* ======================================================================= *)
(* Properties                                                              *)
(* ======================================================================= *)

\* the client-supplied fields of a record or payload
InputFields(x) ==
    [student_name |-> x.student_name, student_id |-> x.student_id,
     timestamp |-> x.timestamp,
     bluetooth_signal_strength |-> x.bluetooth_signal_strength,
     status |-> x.status]

Answered(op, status) == resp.op = op /\ resp.status = Some(status)

\* C1: create_attendance_record followed by get_attendance_by_id on the id
\* it returned yields a record whose student_name, student_id, timestamp,
\* bluetooth_signal_strength and status equal the submitted values, with a
\* non-null id and a non-null created_at.  The state is the one the create
\* returns in; get_attendance_by_id is evaluated in it.
C1_CreateThenGetReturnsInput ==
    Answered("create", HTTP_201_CREATED) =>
        LET created == The(resp.record)
            got == get_attendance_by_id(The(created.id))
        IN /\ created.id # None
           /\ got # None
           /\ InputFields(The(got)) = The(resp.input)
           /\ The(got).id # None
           /\ The(got).created_at # None

\* a payload breaks one of the field constraints the v1 create names
ViolatesConstraint(p) ==
    \/ Len(p.student_name) = 0 \/ Len(p.student_name) > 100
    \/ Len(p.student_id) = 0 \/ Len(p.student_id) > 50
    \/ \E v \in p.bluetooth_signal_strength : v < -100 \/ v > 0
    \/ p.status \notin {"present", "absent", "late"}

\* C2: a v1 create request whose payload violates a field constraint is
\* rejected with a validation error, the data access layer's create is never
\* invoked for it (no request slot ever works on such a payload, no response
\* reports a call), and the stored rows are unchanged by it.
C2_InvalidCreateRejected ==
    [][ /\ \A r \in Req : req'[r].op = "create" => ~ViolatesConstraint(The(req'[r].input))
        /\ (resp'.op = "create" /\ ViolatesConstraint(The(resp'.input))) =>
               /\ resp'.status = Some(HTTP_422_UNPROCESSABLE)
               /\ ~resp'.dal
               /\ store' = store ]_vars

\* a signal strength above 0 is rejected while rows are stored
C2_Witness ==
    /\ Answered("create", HTTP_422_UNPROCESSABLE)
    /\ The(resp.input).bluetooth_signal_strength = Some(1)
    /\ store # {}

\* the rows a list query is about: all rows, or those of the student asked for
MatchingRows(q) ==
    IF q.student_id = None THEN store
    ELSE { row \in store : row.student_id = The(q.student_id) }

\* records is the page skip..skip+limit-1 of a timestamp-descending ordering of rows
IsPage(records, rows, skip, limit) ==
    /\ Len(records) <= limit
    /\ \A i, j \in 1 .. Len(records) :
           i < j => records[i].timestamp.wall >= records[j].timestamp.wall
    /\ \E o \in Perms(rows) :
           /\ \A i, j \in 1 .. Len(o) : i < j => o[i].timestamp.wall >= o[j].timestamp.wall
           /\ Len(records) = IF Len(o) - skip < 0 THEN 0 ELSE Min(limit, Len(o) - skip)
           /\ \A i \in 1 .. Len(records) : records[i] = o[skip + i]

\* C3: for every store content, skip >= 0 and limit N in [1, 500], the v1
\* list returns at most N records, in non-increasing timestamp order, that
\* are exactly the rows at positions skip..skip+N-1 of the timestamp-descending
\* ordering of the matching rows (checked on the page a request holds while
\* the store is as it read it), and total is the number of all matching rows
\* before pagination (checked when the response is built).  Stated for a
\* filter that is absent or a non-empty student id.
C3_ListPageAndTotal ==
    /\ \A r \in Req :
           (req[r].pc = "count" /\ req[r].at = Some(version)
               /\ The(req[r].input).student_id # Some("")) =>
           LET q == The(req[r].input)
           IN IsPage(req[r].records, MatchingRows(q), q.skip, q.limit)
    /\ (Answered("list", HTTP_200_OK) /\ The(resp.input).student_id # Some("")) =>
           /\ resp.total = Some(Cardinality(MatchingRows(The(resp.input))))
           /\ Len(resp.records) <= The(resp.input).limit

\* a page of one record out of two matching rows, read from an unchanged store
C3_Witness ==
    /\ Answered("list", HTTP_200_OK)
    /\ The(resp.input).limit = 1
    /\ The(resp.input).skip = 1
    /\ Len(resp.records) = 1
    /\ resp.total = Some(2)
    /\ resp.at = Some(version)

\* C4: for every string X supplied as the student_id filter of the v1 list,
\* every returned record has student_id equal to X and total equals the
\* number of stored rows whose student_id equals X.
C4_FilterByStudentId ==
    (Answered("list", HTTP_200_OK) /\ The(resp.input).student_id # None) =>
        LET X == The(The(resp.input).student_id)
        IN /\ \A i \in 1 .. Len(resp.records) : resp.records[i].student_id = X
           /\ resp.total = Some(Cardinality({ row \in store : row.student_id = X }))

\* C5: delete_attendance_record on an id that is present (when its DELETE
\* runs) removes exactly that one row, leaves every other row unchanged and
\* returns true; a call made after that on the same id returns false and
\* leaves the store unchanged.
C5_DeleteOnceThenNotFound ==
    [][ /\ \A r \in Req :
               (/\ req[r].pc = "delete" /\ req'[r].pc = "idle"
                /\ resp'.status # Some(HTTP_500_INTERNAL_SERVER_ERROR)
                /\ The(req[r].input) \in Ids(store)) =>
               /\ resp'.deleted = Some(TRUE)
               /\ store' \subseteq store
               /\ Cardinality(store') = Cardinality(store) - 1
               /\ Ids(store \ store') = req[r].input
        /\ \A r \in Req :
               (req[r].pc = "idle" /\ req'[r].op = "delete") =>
                   The(req'[r].input) \notin deleted_ids
        /\ (/\ resp'.op = "delete" /\ req' = req
            /\ resp'.status # Some(HTTP_500_INTERNAL_SERVER_ERROR)
            /\ The(resp'.input) \in deleted_ids) =>
               /\ resp'.deleted = Some(FALSE)
               /\ store' = store ]_vars

\* the second delete of an id finds nothing, with another row left untouched
C5_Witness ==
    /\ Answered("delete", HTTP_404_NOT_FOUND)
    /\ resp.deleted = Some(FALSE)
    /\ The(resp.input) \in deleted_ids
    /\ store # {}

\* ids handed to create requests still in flight
InFlightIds ==
    UNION { The(req[r].record).id : r \in { q \in Req : req[q].op = "create" } }

\* C6: create requests handled concurrently, in any interleaving of their
\* insert/commit/refresh steps, each receive an id distinct from every other
\* (in flight, returned or stored), and every commit adds exactly one new
\* row: the rows stored number the commits less the rows deleted.
C6_ConcurrentCreatesDistinctIds ==
    /\ \A r1, r2 \in Req :
           (/\ r1 # r2 /\ req[r1].op = "create" /\ req[r2].op = "create"
            /\ The(req[r1].record).id # None) =>
               The(req[r1].record).id # The(req[r2].record).id
    /\ \A r \in Req :
           req[r].pc = "commit" => The(req[r].record).id \cap Ids(store) = {}
    /\ Answered("create", HTTP_201_CREATED) =>
           /\ resp.record \subseteq store
           /\ The(resp.record).id \cap InFlightIds = {}
    /\ Cardinality(Ids(store)) = Cardinality(store)
    /\ Cardinality(store) = (version - Cardinality(deleted_ids)) - Cardinality(deleted_ids)

\* two creates have both committed before either returned
C6_Witness ==
    /\ \A r \in {1, 2} : req[r].op = "create" /\ req[r].pc = "refresh"
    /\ Cardinality(store) = 2
    /\ deleted_ids = {}

\* C7: if persistence fails during a create or a delete, the data access
\* layer rolls back, so that the store and the request's session are left as
\* if the call never happened, and the failure is answered with 500.
C7_FailureLeavesNoTrace ==
    (/\ resp.op \in {"create", "delete"}
     /\ resp.status = Some(HTTP_500_INTERNAL_SERVER_ERROR)) =>
        /\ resp.session = "none"
        /\ resp.op = "create" => The(resp.record).id \cap Ids(store) = {}

\* C8 as stated: every POST or GET to /api/v2/attendance/ is answered with
\* the 501 not-implemented response and leaves the store unchanged.
C8_V2Answers501 ==
    [][ resp'.op = "v2" =>
            resp'.status = Some(HTTP_501_NOT_IMPLEMENTED) /\ store' = store ]_vars

\* C8: main.py mounts only the v1 router, so every POST or GET to
\* /api/v2/attendance/ of the running application, with any payload, is
\* answered 404 Not Found, and leaves the store unchanged.
C8_V2NotMounted ==
    [][ resp'.op = "v2" =>
            resp'.status = Some(HTTP_404_NOT_FOUND) /\ store' = store ]_vars

\* a v2 POST with a payload is answered while rows are stored
C8_Witness ==
    /\ resp.op = "v2"
    /\ The(resp.input).method = "POST"
    /\ The(resp.input).body # None
    /\ resp.status # None
    /\ store # {}

\* C9: over any sequence of creates and deletes, a record's id is assigned
\* once and never changes (in the request that holds it and in the store),
\* ids are assigned in strictly increasing order, and the id of a deleted
\* record is never assigned to a later record.
C9_IdsAssignedOnceIncreasing ==
    [][ /\ \A row \in store : row \in store' \/ The(row.id) \notin Ids(store')
        /\ \A r \in Req :
               (req[r].op = "create" /\ req'[r].op = "create"
                   /\ The(req[r].record).id # None) =>
               The(req'[r].record).id = The(req[r].record).id
        /\ \A r \in Req :
               (req[r].pc = "idle" /\ req'[r].pc = "commit") =>
               \A new \in The(req'[r].record).id :
                   \A old \in Ids(store) \cup deleted_ids \cup InFlightIds : new > old
        /\ Ids(store') \cap deleted_ids' = {} ]_vars

\* an id is assigned after a lower id was deleted
C9_Witness ==
    /\ deleted_ids = {1}
    /\ \E r \in Req : req[r].pc = "commit" /\ The(req[r].record).id = Some(2)
                      /\ The(req[r].record).created_at = Some(1)
    /\ version = 2

\* C10: when several stored records share a timestamp, two executions of the
\* list with the same skip, limit and student_id against an unchanged store
\* return the records in the same order.
C10_RepeatedListSameOrder ==
    \A q \in GoodQueries :
        QueryOk(q) =>
            \A first, second \in get_attendance_records(q.skip, q.limit, q.student_id) :
                first = second

\* C11: under any interleaving of a v1 list request with concurrent create
\* and delete requests, total and records of the response describe one store
\* state: total counts the matching rows of the state the page was read from,
\* so the page is no longer than total and, for skip = 0 and limit >= total,
\* exactly as long as total.
C11_ListTotalDescribesPageState ==
    Answered("list", HTTP_200_OK) =>
        LET q == The(resp.input)
            total == The(resp.total)
        IN /\ Len(resp.records) <= total
           /\ (q.skip = 0 /\ q.limit >= total) => Len(resp.records) = total

====
